---- MODULE Spec2Model ----
(***************************************************************************)
(* Model of morphomatics/manifold/SE3.py: the product manifold SE(3)^k of  *)
(* rigid motions, its AffineGroupStructure and the closed-form expm/logm.  *)
(*                                                                         *)
(* Arrays are functions with 0-based indices, as in the source:            *)
(*   a batch  P[s][i][j],  s \in 0..k-1,  i, j \in 0..3.                   *)
(*                                                                         *)
(* Array entries are exact numbers of the ring Q[p, 1/p], p = pi/2: a      *)
(* number is a function from exponents of p to non-zero reduced fractions  *)
(* <<n, d>>.  On the inputs the model enumerates (rotation angle 0 or pi/2 *)
(* about a coordinate axis) every intermediate value of expm and logm lies *)
(* in this ring, so the formulas of the source are evaluated exactly.      *)
(***************************************************************************)
EXTENDS Integers, Sequences, FiniteSets, TLC

\* ------------------------------------------------------------------------
\* Bounds of the model
\* ------------------------------------------------------------------------
\* largest batch size k
MaxK == 3
\* the enumerated translations are (n, n^2, -n), n \in 0..MaxT
MaxT == 2
\* largest number of AffineGroupStructure instances created on one manifold
MaxInst == 2

\* ------------------------------------------------------------------------
\* Exact arithmetic: fractions
\* ------------------------------------------------------------------------
Abs(n) == IF n < 0 THEN -n ELSE n

RECURSIVE GCD(_, _)
GCD(a, b) == IF b = 0 THEN a ELSE GCD(b, a % b)

\* the reduced fraction n/d, d # 0
Frac(n, d) ==
  LET g == GCD(Abs(n), Abs(d))
      sgn == IF d < 0 THEN -1 ELSE 1
  IN  <<sgn * (n \div g), sgn * (d \div g)>>

Q0 == <<0, 1>>
QAdd(a, b) == Frac(a[1] * b[2] + b[1] * a[2], a[2] * b[2])
QMul(a, b) == Frac(a[1] * b[1], a[2] * b[2])
QNeg(a) == <<-a[1], a[2]>>
QLess(a, b) == a[1] * b[2] < b[1] * a[2]

\* ------------------------------------------------------------------------
\* Exact arithmetic: numbers  sum_e c[e] * p^e,  p = pi/2
\* ------------------------------------------------------------------------
Prune(f) == [e \in {x \in DOMAIN f : f[x][1] # 0} |-> f[e]]
Coef(x, e) == IF e \in DOMAIN x THEN x[e] ELSE Q0
Mono(n, d, e) == Prune([x \in {e} |-> Frac(n, d)])
Num(n) == Mono(n, 1, 0)
Zero == Num(0)
One == Num(1)
\* the number pi/2
HalfPi == Mono(1, 1, 1)

NAdd(x, y) ==
  IF x = Zero THEN y
  ELSE IF y = Zero THEN x
  ELSE Prune([e \in DOMAIN x \cup DOMAIN y |-> QAdd(Coef(x, e), Coef(y, e))])
NNeg(x) == [e \in DOMAIN x |-> QNeg(x[e])]
NSub(x, y) == NAdd(x, NNeg(y))

RECURSIVE ConvSum(_, _, _, _)
ConvSum(S, x, y, e) ==
  IF S = {} THEN Q0
  ELSE LET i == CHOOSE i \in S : TRUE
       IN  QAdd(QMul(x[i], Coef(y, e - i)), ConvSum(S \ {i}, x, y, e))

NMul(x, y) ==
  IF x = Zero \/ y = Zero THEN Zero
  ELSE IF x = One THEN y
  ELSE IF y = One THEN x
  ELSE Prune([e \in {i + j : i \in DOMAIN x, j \in DOMAIN y} |-> ConvSum(DOMAIN x, x, y, e)])

\* x / y for a monomial y # 0
NDiv(x, y) ==
  LET e == CHOOSE e \in DOMAIN y : TRUE
      inv == Mono(y[e][2], y[e][1], -e)
  IN  NMul(x, inv)

\* the square root of a monomial that is a perfect square (or of zero)
NSqrt(x) ==
  IF x = Zero THEN Zero
  ELSE LET e == CHOOSE e \in DOMAIN x : TRUE
           n == CHOOSE r \in 0..x[e][1] : r * r = x[e][1]
           d == CHOOSE r \in 1..x[e][2] : r * r = x[e][2]
       IN  Mono(n, d, e \div 2)

\* f[0] + ... + f[n-1]
RECURSIVE NSumTo(_, _)
NSumTo(f, n) == IF n = 0 THEN Zero ELSE NAdd(NSumTo(f, n - 1), f[n - 1])

\* ------------------------------------------------------------------------
\* Array primitives (jax.numpy), batched over the leading axis
\* ------------------------------------------------------------------------
\* jnp.eye(n)
eye(n) == [i \in 0..(n - 1) |-> [j \in 0..(n - 1) |-> IF i = j THEN One ELSE Zero]]

\* number of slots of a batch (its leading dimension)
Slots(P) == Cardinality(DOMAIN P)

\* P[:, :3, :3]
RotBlock(P) == [s \in DOMAIN P |-> [i \in 0..2 |-> [j \in 0..2 |-> P[s][i][j]]]]
\* P[:, :3, 3]
TransBlock(P) == [s \in DOMAIN P |-> [i \in 0..2 |-> P[s][i][3]]]
\* P.at[:, :3, :3].set(R)
SetRot(P, R) ==
  [s \in DOMAIN P |-> [i \in 0..3 |-> [j \in 0..3 |->
      IF i < 3 /\ j < 3 THEN R[s][i][j] ELSE P[s][i][j]]]]
\* P.at[:, :3, 3].set(t)
SetTrans(P, t) ==
  [s \in DOMAIN P |-> [i \in 0..3 |-> [j \in 0..3 |->
      IF i < 3 /\ j = 3 THEN t[s][i] ELSE P[s][i][j]]]]
\* P.at[:, 3, 3].set(v)
SetCorner(P, v) ==
  [s \in DOMAIN P |-> [i \in 0..3 |-> [j \in 0..3 |->
      IF i = 3 /\ j = 3 THEN v ELSE P[s][i][j]]]]

\* one slot of A @ B for n x n matrices
MatMul(A, B, n) ==
  [i \in 0..(n - 1) |-> [k \in 0..(n - 1) |->
      NSumTo([j \in 0..(n - 1) |-> NMul(A[i][j], B[j][k])], n)]]
\* one slot of a matrix-vector product
MatVec(A, v, n) ==
  [i \in 0..(n - 1) |-> NSumTo([j \in 0..(n - 1) |-> NMul(A[i][j], v[j])], n)]

\* jnp.einsum('...ij,...jk', A, B) on batches of 4 x 4 matrices
einsum_ij_jk(A, B) == [s \in DOMAIN A |-> MatMul(A[s], B[s], 4)]
\* jnp.einsum('...ij,...j', A, v) on a batch of 3 x 3 matrices and of 3-vectors
einsum_ij_j(A, v) == [s \in DOMAIN A |-> MatVec(A[s], v[s], 3)]
\* jnp.einsum('...ij->...ji', A)
einsum_ji(A) == [s \in DOMAIN A |-> [i \in 0..2 |-> [j \in 0..2 |-> A[s][j][i]]]]
\* A @ B on batches of 3 x 3 matrices
BatchMatMul3(A, B) == [s \in DOMAIN A |-> MatMul(A[s], B[s], 3)]
\* elementwise A + B, -A and c * A (c a number) on batches of 3 x 3 matrices
BatchAdd3(A, B) == [s \in DOMAIN A |-> [i \in 0..2 |-> [j \in 0..2 |-> NAdd(A[s][i][j], B[s][i][j])]]]
BatchNeg3(A) == [s \in DOMAIN A |-> [i \in 0..2 |-> [j \in 0..2 |-> NNeg(A[s][i][j])]]]
BatchScale3(c, A) == [s \in DOMAIN A |-> [i \in 0..2 |-> [j \in 0..2 |-> NMul(c, A[s][i][j])]]]
\* jnp.eye(3) + A: the (3,3) identity broadcast over the batch
EyePlus(A) == [s \in DOMAIN A |-> [i \in 0..2 |-> [j \in 0..2 |-> NAdd(eye(3)[i][j], A[s][i][j])]]]

\* Broadcasting of c * A for c of shape (k,) and A of shape (k,3,3): shapes are
\* aligned from the right, so the k of c meets the last axis (3) of A.
Broadcastable(k) == k = 1 \/ k = 3
\* c * A when Broadcastable: entry [s][i][j] takes c[0] if k = 1, c[j] if k = 3
BroadcastMul(c, A) ==
  [s \in DOMAIN A |-> [i \in 0..2 |-> [j \in 0..2 |->
      NMul(IF Slots(A) = 1 THEN c[0] ELSE c[j], A[s][i][j])]]]

\* .5 * jnp.sum(W ** 2, axis=(-1, -2)): shape (k,)
HalfSumSq(W) ==
  [s \in DOMAIN W |->
      NMul(Mono(1, 2, 0),
           NSumTo([i \in 0..2 |-> NSumTo([j \in 0..2 |-> NMul(W[s][i][j], W[s][i][j])], 3)], 3))]

\* ------------------------------------------------------------------------
\* Scalar functions on the angles of the model: theta = m * pi/2, m \in Nat
\* ------------------------------------------------------------------------
\* m for theta = m * pi/2
QuarterTurns(th) == IF th = Zero THEN 0 ELSE th[1][1]
\* jnp.cos(theta)
cos(th) == LET m == QuarterTurns(th) % 4 IN
           IF m = 0 THEN One ELSE IF m = 2 THEN Num(-1) ELSE Zero
\* jnp.sin(theta)
sin(th) == LET m == QuarterTurns(th) % 4 IN
           IF m = 1 THEN One ELSE IF m = 3 THEN Num(-1) ELSE Zero
\* jnp.cos(.5 * theta) / jnp.sinc(.5 * theta / jnp.pi) = (theta/2) * cot(theta/2),
\* for theta \in {0, pi/2, pi}
cos_over_sinc(th) ==
  LET m == QuarterTurns(th) IN
  IF m = 0 THEN One ELSE IF m = 1 THEN NMul(Mono(1, 2, 0), th) ELSE Zero
\* jnp.sqrt(theta2 + eps): eps = 2.2e-16 vanishes in the rounding of every non-zero
\* theta2 of the model; for theta2 = 0 the value sqrt(eps) = 1.5e-8 is written Zero
sqrt_eps(theta2) == NSqrt(theta2)
\* theta < 1e-6, for theta = sqrt(eps) (written Zero) or theta >= pi/2
below_1e6(th) == th = Zero

\* ------------------------------------------------------------------------
\* Outcomes of a call: a returned value or a raised exception
\* ------------------------------------------------------------------------
None == <<>>
Return(v) == [raised |-> "none", val |-> v]
Raise(e) == [raised |-> e, val |-> None]
Returned(o) == o.raised = "none"

\* ------------------------------------------------------------------------
\* The rotation subroutine (morphomatics.manifold.SO3), on rotation angles
\* 0 and pi/2: Rodrigues' formula and its inverse
\* ------------------------------------------------------------------------
\* one slot of SO3.expm: W2 = W @ W, theta2 = the squared angle, th = the angle
SO3_expm_slot(W, W2, theta2, th) ==
  IF th = Zero THEN eye(3)
  ELSE [i \in 0..2 |-> [j \in 0..2 |->
         NAdd(eye(3)[i][j],
              NAdd(NMul(NDiv(sin(th), th), W[i][j]),
                   NMul(NDiv(NSub(One, cos(th)), theta2), W2[i][j])))]]
\* SO3.expm(W): R = I + sin(t)/t W + (1 - cos(t))/t^2 W^2, t the angle of W
SO3_expm(W) ==
  [s \in DOMAIN W |->
     SO3_expm_slot(W[s], MatMul(W[s], W[s], 3), HalfSumSq(W)[s], NSqrt(HalfSumSq(W)[s]))]

\* trace of a 3 x 3 matrix
Trace3(R) == NAdd(R[0][0], NAdd(R[1][1], R[2][2]))
\* the rotations whose angle the model's logarithm covers: 0 (trace 3), pi/2 (trace 1)
InLogDomain(R) == \A s \in DOMAIN R : Trace3(R[s]) \in {Num(3), Num(1)}
\* SO3.logm(R): w = t / (2 sin t) (R - R^T), cos t = (trace R - 1) / 2
SO3_logm(R) ==
  [s \in DOMAIN R |->
     IF Trace3(R[s]) = Num(3) THEN [i \in 0..2 |-> [j \in 0..2 |-> Zero]]
     ELSE [i \in 0..2 |-> [j \in 0..2 |->
            NMul(NDiv(HalfPi, Num(2)), NSub(R[s][i][j], R[s][j][i]))]]]

\* ------------------------------------------------------------------------
\* expm and logm of SE(3)^k
\* ------------------------------------------------------------------------
\* the coefficient of W in V:  where(theta < 1e-6, Taylor, (1 - cos theta) / theta2)
expm_a(theta2, theta) ==
  IF below_1e6(theta)
  THEN NAdd(NSub(Mono(1, 2, 0), NMul(Mono(1, 24, 0), theta2)),
            NMul(Mono(1, 720, 0), NMul(theta2, theta2)))
  ELSE NDiv(NSub(One, cos(theta)), theta2)

\* the coefficient of W @ W in V:  where(theta < 1e-6, Taylor, (theta - sin theta) / (theta2 * theta))
expm_b(theta2, theta) ==
  IF below_1e6(theta)
  THEN NAdd(NSub(Mono(1, 6, 0), NMul(Mono(1, 120, 0), theta2)),
            NMul(Mono(1, 5040, 0), NMul(theta2, theta2)))
  ELSE NDiv(NSub(theta, sin(theta)), NMul(theta2, theta))

\* the coefficient of w @ w in Vinv
logm_c(theta2, theta) ==
  IF below_1e6(theta)
  THEN NAdd(NAdd(Mono(1, 12, 0), NMul(Mono(1, 720, 0), theta2)),
            NMul(Mono(1, 30240, 0), NMul(theta2, theta2)))
  ELSE NDiv(NSub(One, cos_over_sinc(theta)), theta2)

\* V = jnp.eye(3) + where(...) * W + where(...) * (W @ W), theta2 of shape (k,)
expm_V(W, theta2) ==
  BatchAdd3(EyePlus(BroadcastMul([s \in DOMAIN W |-> expm_a(theta2[s], sqrt_eps(theta2[s]))], W)),
            BroadcastMul([s \in DOMAIN W |-> expm_b(theta2[s], sqrt_eps(theta2[s]))],
                         BatchMatMul3(W, W)))

expm_result_nocorner(X, R, V) ==
  SetTrans(SetRot(X, R), einsum_ij_j(V, TransBlock(X)))

\* X.at[:, :3, :3].set(R).at[:, :3, 3].set(einsum('...ij,...j', V, X[:, :3, 3])).at[:, 3, 3].set(1)
expm_result(X, R, V) ==
  SetCorner(SetTrans(SetRot(X, R), einsum_ij_j(V, TransBlock(X))), One)

\* def expm(X): the product of the (k,) coefficients with (k,3,3) arrays must broadcast
expm(X) ==
  IF ~Broadcastable(Slots(X)) THEN Raise("BroadcastError")
  ELSE Return(expm_result(X, SO3_expm(RotBlock(X)),
                          expm_V(RotBlock(X), HalfSumSq(RotBlock(X)))))

\* Vinv = jnp.eye(3) - .5 * w + where(...) * (w @ w), theta2 of shape (k,)
logm_Vinv(w, theta2) ==
  BatchAdd3(EyePlus(BatchScale3(Mono(-1, 2, 0), w)),
            BroadcastMul([s \in DOMAIN w |-> logm_c(theta2[s], sqrt_eps(theta2[s]))],
                         BatchMatMul3(w, w)))

\* P.at[:, :3, :3].set(w).at[:, :3, 3].set(einsum('...ij,...j', Vinv, P[:, :3, 3])).at[:, 3, 3].set(0)
logm_result(P, w, Vinv) ==
  SetCorner(SetTrans(SetRot(P, w), einsum_ij_j(Vinv, TransBlock(P))), Zero)

\* logm with w = SO3_logm(P[:, :3, :3])
logm_of(P, w) == Return(logm_result(P, w, logm_Vinv(w, HalfSumSq(w))))

\* def logm(P)
logm(P) ==
  IF ~Broadcastable(Slots(P)) THEN Raise("BroadcastError")
  ELSE logm_of(P, SO3_logm(RotBlock(P)))

\* ------------------------------------------------------------------------
\* SE3.AffineGroupStructure: the operations implemented in this file
\* ------------------------------------------------------------------------
\* AffineGroupStructure.identity: jnp.tile(jnp.eye(4), (k, 1, 1))
identity(k) == [s \in 0..(k - 1) |-> eye(4)]

\* P.at[:, :3, :3].set(Rt).at[:, :3, 3].set(einsum('...ij,...j', -Rt, P[:, :3, 3]))
inverse_of(P, Rt) == SetTrans(SetRot(P, Rt), einsum_ij_j(BatchNeg3(Rt), TransBlock(P)))

inverse_noneg(P) == SetTrans(SetRot(P, einsum_ji(RotBlock(P))),
                             einsum_ij_j(einsum_ji(RotBlock(P)), TransBlock(P)))

\* AffineGroupStructure.inverse: Rt = einsum('...ij->...ji', P[:, :3, :3])
inverse(P) == inverse_of(P, einsum_ji(RotBlock(P)))

\* entries of a coordinate vector: one + sqrt2 * 2**.5
Plain(v) == [one |-> v, sqrt2 |-> Zero]
\* v * 2**.5
TimesSqrt2(v) == [one |-> Zero, sqrt2 |-> v]

\* x.reshape((-1, 1), order='F') of x with shape (rows, cols): the first index
\* varies fastest
reshape_F(x, rows, cols) == [n \in 0..(rows * cols - 1) |-> <<x[n % rows][n \div rows]>>]
\* x.reshape((-1, 1)) in the default (C) order: the last index varies fastest
reshape_C(x, rows, cols) == [n \in 0..(rows * cols - 1) |-> <<x[n \div cols][n % cols]>>]

coords_C(X) ==
  LET k == Slots(X)
      x == [r \in 0..5 |-> [s \in 0..(k - 1) |->
              IF r = 0 THEN TimesSqrt2(X[s][0][1])
              ELSE IF r = 1 THEN TimesSqrt2(X[s][0][2])
              ELSE IF r = 2 THEN TimesSqrt2(X[s][1][2])
              ELSE Plain(X[s][r - 3][3])]]
  IN  reshape_C(x, 6, k)

\* AffineGroupStructure.coords
coords(X) ==
  LET k == Slots(X)
      \* jnp.stack((X[:, 0, 1], X[:, 0, 2], X[:, 1, 2])) * 2**.5: shape (3, k)
      x123 == [r \in 0..2 |-> [s \in 0..(k - 1) |->
                 TimesSqrt2(IF r = 0 THEN X[s][0][1]
                            ELSE IF r = 1 THEN X[s][0][2] ELSE X[s][1][2])]]
      \* X[:, :3, 3].transpose(): shape (3, k)
      x456 == [r \in 0..2 |-> [s \in 0..(k - 1) |-> Plain(X[s][r][3])]]
      \* jnp.concatenate((x123, x456), axis=0): shape (6, k)
      x == [r \in 0..5 |-> IF r < 3 THEN x123[r] ELSE x456[r - 3]]
  IN  reshape_F(x, 6, k)

\* jax.lax.cond(pred, lambda A: A[-1], lambda A: einsum('...ij,...jk', A[-1], A[0]), A)
\* for A = (A0, A1), A1 the outcome of expm
exp_cond(pred, A0, A1) ==
  IF ~Returned(A1) THEN A1
  ELSE Return(IF pred THEN A1.val ELSE einsum_ij_jk(A1.val, A0))

exp_swapped(argv) ==
  IF ~Returned(expm(argv[Len(argv)])) THEN expm(argv[Len(argv)])
  ELSE Return(IF Len(argv) = 1 THEN expm(argv[Len(argv)]).val
              ELSE einsum_ij_jk(argv[1], expm(argv[Len(argv)]).val))

\* AffineGroupStructure.exp(*argv): the operand is (argv[0], expm(argv[-1]))
exp(argv) == exp_cond(Len(argv) = 1, argv[1], expm(argv[Len(argv)]))

log_noinverse(argv) ==
  logm(IF Len(argv) = 1 THEN argv[Len(argv)]
       ELSE einsum_ij_jk(argv[Len(argv)], argv[1]))

\* AffineGroupStructure.log(*argv)
log(argv) ==
  logm(IF Len(argv) = 1 THEN argv[Len(argv)]
       ELSE einsum_ij_jk(argv[Len(argv)], inverse(argv[1])))

\* AffineGroupStructure.retr
retr(R, X) == exp(<<R, X>>)

\* AffineGroupStructure.curvature_tensor
curvature_tensor(p, X, Y, Z) == Raise("NotImplementedError")
\* AffineGroupStructure.transp
transp(P, S, X) == Raise("NotImplementedError")
\* AffineGroupStructure.jacobiField
jacobiField(P, S, t, X) == Raise("NotImplementedError")

\* ------------------------------------------------------------------------
\* class SE3(Manifold)
\* ------------------------------------------------------------------------
\* k as passed to the constructor: a fraction <<n, d>> (Python accepts any number)
IsInt(k) == k[2] = 1
K1 == <<1, 1>>

\* the attributes getattr(self, ...) finds on an SE3 object that are defined in this file
SE3_attributes ==
  {"initAffineGroupStructure", "k", "rand", "randvec", "zerovec", "proj", "AffineGroupStructure"}

\* the manifold before SE3.__init__ has run, and after it has raised
NoManifold ==
  [status |-> "unconstructed", error |-> "none", k |-> Q0, name |-> "", dimension |-> Q0,
   point_shape |-> <<>>, connec |-> 0, group |-> 0]

initAffineGroupStructure_connec_only(self, structure) ==
  [self EXCEPT !.connec = structure]

\* SE3.initAffineGroupStructure; structure is the new AffineGroupStructure(self)
initAffineGroupStructure(self, structure) ==
  [self EXCEPT !.connec = structure, !.group = structure]

SE3_init_structure_optional(k, structure, inst) ==
  IF ~(k = K1 \/ QLess(K1, k))
  THEN [NoManifold EXCEPT !.status = "failed", !.error = "RuntimeError"]
  ELSE LET self == [status |-> "constructed", error |-> "none", k |-> k,
                    name |-> IF k = K1 THEN "Rigid motions" ELSE "Special Euclidean group SE(3)^k",
                    dimension |-> QMul(<<6, 1>>, k),
                    point_shape |-> <<k, <<4, 1>>, <<4, 1>>>>,
                    connec |-> 0, group |-> 0]
       IN  IF structure = "AffineGroup" THEN initAffineGroupStructure(self, inst) ELSE self

\* SE3.__init__(self, k, structure); inst is the instance a structure initialiser creates
SE3_init(k, structure, inst) ==
  IF ~(k = K1 \/ QLess(K1, k))
  THEN [NoManifold EXCEPT !.status = "failed", !.error = "RuntimeError"]
  ELSE LET self == [status |-> "constructed", error |-> "none", k |-> k,
                    name |-> IF k = K1 THEN "Rigid motions" ELSE "Special Euclidean group SE(3)^k",
                    dimension |-> QMul(<<6, 1>>, k),
                    point_shape |-> <<k, <<4, 1>>, <<4, 1>>>>,
                    connec |-> 0, group |-> 0]
       IN  IF structure # ""
           THEN IF ("init" \o structure \o "Structure") \in SE3_attributes
                THEN initAffineGroupStructure(self, inst)
                ELSE [NoManifold EXCEPT !.status = "failed", !.error = "AttributeError"]
           ELSE self

\* jnp.zeros(shape): a shape with a non-integer entry is a TypeError
zeros(shape) ==
  IF \E d \in 1..Len(shape) : ~IsInt(shape[d]) THEN Raise("TypeError")
  ELSE Return([s \in 0..(shape[1][1] - 1) |->
                 [i \in 0..(shape[2][1] - 1) |-> [j \in 0..(shape[3][1] - 1) |-> Zero]]])

\* SE3.rand; R = self._SO.rand(k1), t = jax.random.normal(k2, (k, 3))
rand(self, R, t) ==
  LET z == zeros(self.point_shape)
  IN  IF ~Returned(z) THEN z ELSE Return(SetCorner(SetTrans(SetRot(z.val, R), t), One))

\* SE3.randvec; W = self._SO.randvec(P[:, :3, :3], k1), t = jax.random.normal(k2, (k, 3))
randvec(self, W, t) ==
  LET z == zeros(self.point_shape)
  IN  IF ~Returned(z) THEN z ELSE Return(SetTrans(SetRot(z.val, W), t))

\* SE3.zerovec
zerovec(self) == zeros(self.point_shape)

proj_zero(self, P, X) == zerovec(self)

\* SE3.proj
proj(self, P, X) == Raise("NotImplementedError")

\* ------------------------------------------------------------------------
\* The inputs the model enumerates
\* ------------------------------------------------------------------------
Det3(R) ==
    R[0][0] * (R[1][1] * R[2][2] - R[1][2] * R[2][1])
  - R[0][1] * (R[1][0] * R[2][2] - R[1][2] * R[2][0])
  + R[0][2] * (R[1][0] * R[2][1] - R[1][1] * R[2][0])

\* the permutations of (0, 1, 2)
Perms3 == <<<<0, 1, 2>>, <<1, 2, 0>>, <<2, 0, 1>>, <<0, 2, 1>>, <<2, 1, 0>>, <<1, 0, 2>>>>
\* signed permutation matrix n: permutation n % 6, the sign of row i is bit i of n \div 6
SignedPerm(n) ==
  [i \in 0..2 |-> [j \in 0..2 |->
     IF j = Perms3[(n % 6) + 1][i + 1]
     THEN (IF ((n \div 6) \div (2 ^ i)) % 2 = 0 THEN 1 ELSE -1)
     ELSE 0]]
IsRotation(R) == Det3(R) = 1
IsQuarterTurn(R) == Det3(R) = 1 /\ R[0][0] + R[1][1] + R[2][2] \in {1, 3}

ToNum3(R) == [i \in 0..2 |-> [j \in 0..2 |-> Num(R[i][j])]]
\* the 24 rotations with integer entries (orthogonal, determinant +1): the signed
\* permutation matrices of determinant +1
RotSeq ==
  LET all == SelectSeq([n \in 1..48 |-> SignedPerm(n - 1)], IsRotation)
  IN  [n \in 1..Len(all) |-> ToNum3(all[n])]
\* those of angle 0 or pi/2 (trace 3 or 1)
QuarterSeq ==
  LET all == SelectSeq([n \in 1..48 |-> SignedPerm(n - 1)], IsQuarterTurn)
  IN  [n \in 1..Len(all) |-> ToNum3(all[n])]
\* the skew generators of the rotations of QuarterSeq: angle 0 or pi/2 about an axis
SkewSeq == [n \in 1..Len(QuarterSeq) |-> SO3_logm([s \in {0} |-> QuarterSeq[n]])[0]]
\* translations (n, n^2, -n), n \in 0..MaxT
TSeq ==
  [n \in 1..(MaxT + 1) |->
     [i \in 0..2 |-> Num(IF i = 0 THEN n - 1 ELSE IF i = 1 THEN (n - 1) * (n - 1) ELSE 1 - n)]]

\* a 4 x 4 matrix from its blocks
Block(B, t, row) ==
  [i \in 0..3 |-> [j \in 0..3 |->
     IF i = 3 THEN row[j] ELSE IF j = 3 THEN t[i] ELSE B[i][j]]]
PointRow == [j \in 0..3 |-> IF j = 3 THEN One ELSE Zero]
VectorRow == [j \in 0..3 |-> Zero]
\* a bottom row no Lie-algebra element has
BadRow == [j \in 0..3 |-> Num(j + 2)]

\* element n of the product of the blocks Bs with the translations
Elt(Bs, row, n) == Block(Bs[(n % Len(Bs)) + 1], TSeq[((n \div Len(Bs)) % Len(TSeq)) + 1], row)
\* the batch of k elements n, n + stride, n + 2 stride, ...
Window(Bs, row, n, stride, k) == [s \in 0..(k - 1) |-> Elt(Bs, row, n + s * stride)]
\* consecutive slots differ in the rotation (stride 1) or in the translation only
Batches(Bs, row, k) ==
  {Window(Bs, row, n, stride, k) : n \in 0..(Len(Bs) * Len(TSeq) - 1), stride \in {1, Len(Bs)}}

\* valid points of SE(3)^k, those in the domain of the model's logarithm, and
\* the footpoints of the two-argument calls (all with the last translation)
Points(k) == Batches(RotSeq, PointRow, k)
LogPoints(k) == Batches(QuarterSeq, PointRow, k)
Footpoints(k) ==
  {Window(QuarterSeq, PointRow, n, 1, k) :
     n \in (Len(QuarterSeq) * (Len(TSeq) - 1))..(Len(QuarterSeq) * Len(TSeq) - 1)}
\* Lie-algebra elements, and arrays of the same shape with another bottom row
Vectors(k) == Batches(SkewSeq, VectorRow, k)
Malformed(k) == {Window(SkewSeq, BadRow, n, 1, k) : n \in 0..(Len(SkewSeq) * Len(TSeq) - 1)}

\* values k of the constructor's argument: -1, -1/2, 0, 1/2, ..., MaxK + 1/2
Ks == {Frac(n, 2) : n \in -2..(2 * MaxK + 1)}
StructureNames == {"AffineGroup", "", "Canonical", "affinegroup"}

\* ------------------------------------------------------------------------
\* State
\* ------------------------------------------------------------------------
VARIABLES
  M,      \* the SE3 object: its fields, or NoManifold before/without construction
  made,   \* number of AffineGroupStructure instances created so far (ids 1..made)
  built,  \* the instance SE3.__init__ installed (0: none)
  call    \* the last call: [op, args, out]

vars == <<M, made, built, call>>

NoCall == [op |-> "none", args |-> <<>>, out |-> Return(None)]
Called(op, args, out) == call' = [op |-> op, args |-> args, out |-> out]
\* a call that leaves the object as it is
Pure(op, args, out) == Called(op, args, out) /\ UNCHANGED <<M, made, built>>

Constructed == M.status = "constructed"
\* a manifold of integer k with a structure installed
HasStructure == Constructed /\ M.connec # 0 /\ IsInt(M.k)
Kof == M.k[1]
\* no call is in progress
Idle == call.op = "none"
Ready == Idle /\ Constructed
ReadyStructure == Idle /\ HasStructure

\* ------------------------------------------------------------------------
\* Operations of the SE3 object
\* ------------------------------------------------------------------------
\* SE3(k, structure)
Construct ==
  /\ Idle
  /\ M.status = "unconstructed"
  /\ \E k \in Ks, structure \in StructureNames :
       LET self == SE3_init(k, structure, made + 1)
           created == self.connec # 0 \/ self.group # 0
       IN  /\ M' = self
           /\ made' = IF created THEN made + 1 ELSE made
           /\ built' = IF created THEN made + 1 ELSE 0
           /\ Called("SE3", <<k, structure>>,
                     IF self.status = "constructed" THEN Return("self") ELSE Raise(self.error))

\* M.initAffineGroupStructure()
InitAffineGroupStructure ==
  /\ Ready
  /\ made < MaxInst
  /\ M' = initAffineGroupStructure(M, made + 1)
  /\ made' = made + 1
  /\ Called("initAffineGroupStructure", <<>>, Return(None))
  /\ UNCHANGED built

\* M.rand(key): the draws are any rotation batch and any translation batch
Rand ==
  /\ Ready
  /\ IF IsInt(M.k)
     THEN \E P \in Points(Kof) : Pure("rand", <<>>, rand(M, RotBlock(P), TransBlock(P)))
     ELSE Pure("rand", <<>>, rand(M, None, None))

\* M.randvec(P, key)
Randvec ==
  /\ Ready
  /\ IF IsInt(M.k)
     THEN \E X \in Vectors(Kof) :
            Pure("randvec", <<identity(Kof)>>, randvec(M, RotBlock(X), TransBlock(X)))
     ELSE Pure("randvec", <<None>>, randvec(M, None, None))

\* M.zerovec()
Zerovec == Ready /\ Pure("zerovec", <<>>, zerovec(M))

\* arguments for the operations that do not look at them
AnyArgs == IF IsInt(M.k) THEN {None, identity(Kof), zerovec(M).val} ELSE {None}

\* M.proj(P, X)
Proj == Ready /\ \E P, X \in AnyArgs : Pure("proj", <<P, X>>, proj(M, P, X))

\* ------------------------------------------------------------------------
\* Operations of the AffineGroupStructure M.connec / M.group
\* ------------------------------------------------------------------------
Identity == ReadyStructure /\ Pure("identity", <<>>, Return(identity(Kof)))

Transp == /\ Ready /\ M.connec # 0
          /\ \E P, X \in AnyArgs : Pure("transp", <<P, P, X>>, transp(P, P, X))

CurvatureTensor == /\ Ready /\ M.connec # 0
                   /\ \E P, X \in AnyArgs : Pure("curvature_tensor", <<P, X, X, X>>, curvature_tensor(P, X, X, X))

JacobiField == /\ Ready /\ M.connec # 0
               /\ \E P, X \in AnyArgs : Pure("jacobiField", <<P, P, None, X>>, jacobiField(P, P, None, X))

Inverse(Ps) == ReadyStructure /\ \E P \in Ps : Pure("inverse", <<P>>, Return(inverse(P)))

Coords(Xs) == ReadyStructure /\ \E X \in Xs : Pure("coords", <<X>>, Return(coords(X)))

Exp1(Xs) == ReadyStructure /\ \E X \in Xs : Pure("exp", <<X>>, exp(<<X>>))

Exp2(Ps, Xs) == ReadyStructure /\ \E P \in Ps, X \in Xs : Pure("exp", <<P, X>>, exp(<<P, X>>))

Retr(Ps, Xs) == ReadyStructure /\ \E P \in Ps, X \in Xs : Pure("retr", <<P, X>>, retr(P, X))

Log1(Ps) ==
  ReadyStructure /\ \E P \in Ps : InLogDomain(RotBlock(P)) /\ Pure("log", <<P>>, log(<<P>>))

Log2(Ps, Ss) ==
  /\ ReadyStructure
  /\ \E P \in Ps, S \in Ss :
       /\ InLogDomain(BatchMatMul3(RotBlock(S), einsum_ji(RotBlock(P))))
       /\ Pure("log", <<P, S>>, log(<<P, S>>))

\* exp(P, log(P, S)): the exponential at the footpoint of the last logarithm
ExpOfLog ==
  /\ HasStructure
  /\ call.op = "log" /\ Len(call.args) = 2
  /\ Pure("exp_of_log", call.args,
          IF Returned(call.out) THEN exp(<<call.args[1], call.out.val>>) ELSE call.out)

\* ------------------------------------------------------------------------
\* The module-level functions expm and logm
\* ------------------------------------------------------------------------
Expm(Xs) == Idle /\ \E X \in Xs : Pure("expm", <<X>>, expm(X))

Logm(Ps) == Idle /\ \E P \in Ps : InLogDomain(RotBlock(P)) /\ Pure("logm", <<P>>, logm(P))

\* expm(logm(P))
ExpmOfLogm ==
  /\ call.op = "logm"
  /\ Pure("expm_of_logm", call.args, IF Returned(call.out) THEN expm(call.out.val) ELSE call.out)

\* logm(expm(X)) for a Lie-algebra element X
LogmOfExpm ==
  /\ call.op = "expm"
  /\ \A s \in DOMAIN call.args[1] : call.args[1][s][3] = VectorRow
  /\ Pure("logm_of_expm", call.args, IF Returned(call.out) THEN logm(call.out.val) ELSE call.out)

\* ------------------------------------------------------------------------
\* The caller drops the result; the next call starts from there
\* ------------------------------------------------------------------------
Drop == call.op # "none" /\ M.status # "failed" /\ call' = NoCall /\ UNCHANGED <<M, made, built>>

\* ------------------------------------------------------------------------
\* Specifications
\* ------------------------------------------------------------------------
\* the arrays a manifold makes without random draws
SelfPoints == IF HasStructure THEN {identity(Kof)} ELSE {}
SelfVectors == IF HasStructure THEN {zerovec(M).val} ELSE {}

\* The life of one SE3 object: construction, then any public operation.
Init == M = NoManifold /\ made = 0 /\ built = 0 /\ call = NoCall

Next ==
  \/ Construct
  \/ InitAffineGroupStructure
  \/ Rand
  \/ Randvec
  \/ Zerovec
  \/ Proj
  \/ Identity
  \/ Transp
  \/ CurvatureTensor
  \/ JacobiField
  \/ Inverse(SelfPoints)
  \/ Coords(SelfVectors)
  \/ Exp1(SelfVectors)
  \/ Exp2(SelfPoints, SelfVectors)
  \/ Retr(SelfPoints, SelfVectors)
  \/ Log1(SelfPoints)
  \/ Log2(SelfPoints, SelfPoints)
  \/ Drop

Spec == Init /\ [][Next]_vars

\* The group operations on the enumerated points and tangent vectors of a
\* manifold SE3(k), k \in 1..MaxK.
InitGroup ==
  /\ \E k \in 1..MaxK : M = SE3_init(<<k, 1>>, "AffineGroup", 1)
  /\ made = 1 /\ built = 1 /\ call = NoCall

NextGroup ==
  \/ Inverse(Points(Kof))
  \/ Coords(Vectors(Kof))
  \/ Exp1(Vectors(Kof))
  \/ Exp2(Footpoints(Kof), Vectors(Kof))
  \/ Retr(Footpoints(Kof), Vectors(Kof))
  \/ Log1(LogPoints(Kof))
  \/ Log2(Footpoints(Kof), LogPoints(Kof))
  \/ ExpOfLog
  \/ Drop

SpecGroup == InitGroup /\ [][NextGroup]_vars

\* expm and logm on the enumerated inputs.
NextMatrix ==
  \/ Expm(Vectors(Kof) \cup Malformed(Kof))
  \/ Logm(LogPoints(Kof))
  \/ ExpmOfLogm
  \/ LogmOfExpm
  \/ Drop

SpecMatrix == InitGroup /\ [][NextMatrix]_vars

\* ------------------------------------------------------------------------
\* Properties
\* ------------------------------------------------------------------------
Called1(op) == call.op = op /\ Len(call.args) = 1
Called2(op) == call.op = op /\ Len(call.args) = 2
\* a slot with a rotation other than the identity and a translation other than zero
Generic(P) == \E s \in DOMAIN P : RotBlock(P)[s] # eye(3) /\ TransBlock(P)[s] # [i \in 0..2 |-> Zero]

\* C1: for every valid batch P, the slot-wise product inverse(P) . P is k copies of
\* the 4 x 4 identity.
C1_InverseCorrect ==
  call.op = "inverse" =>
    /\ Returned(call.out)
    /\ einsum_ij_jk(call.out.val, call.args[1]) = identity(Slots(call.args[1]))
C1_Witness == call.op = "inverse" /\ Slots(call.args[1]) = 3 /\ Generic(call.args[1])

\* expm inverts logm on Q: both return, and expm(logm(Q)) = Q
ExpmInvertsLogm(Q) ==
  /\ Returned(logm(Q))
  /\ Returned(expm(logm(Q).val))
  /\ expm(logm(Q).val).val = Q

\* C2: for valid P and S, exp(P, log(P, S)) = S whenever expm inverts logm on the
\* element S . inverse(P).
C2_ExpLogFootpoint ==
  (call.op = "exp_of_log" /\ ExpmInvertsLogm(einsum_ij_jk(call.args[2], inverse(call.args[1])))) =>
    /\ Returned(call.out)
    /\ call.out.val = call.args[2]
C2_Witness ==
  /\ call.op = "exp_of_log"
  /\ ExpmInvertsLogm(einsum_ij_jk(call.args[2], inverse(call.args[1])))
  /\ Generic(call.args[1])
  /\ Generic(einsum_ij_jk(call.args[2], inverse(call.args[1])))

\* C3: exp(X) is expm(X); exp(P, X) is the slot-wise product expm(X) . P, expm(X) on
\* the left; retr(P, X) is exp(P, X).
C3_ExpSignatures ==
  /\ Called1("exp") => call.out = expm(call.args[1])
  /\ Called2("exp") =>
       IF Returned(expm(call.args[2]))
       THEN call.out = Return(einsum_ij_jk(expm(call.args[2]).val, call.args[1]))
       ELSE call.out = expm(call.args[2])
  /\ call.op = "retr" => call.out = exp(call.args)
C3_Witness ==
  /\ Called2("exp")
  /\ Returned(call.out)
  /\ call.out.val # einsum_ij_jk(call.args[1], expm(call.args[2]).val)

\* k is an integer that is at least 1
ValidK(k) == IsInt(k) /\ k[1] >= 1

\* C4: SE3(k) raises whenever k is not an integer >= 1, and otherwise succeeds with
\* k stored, dimension 6k and point shape (k, 4, 4).
C4_ConstructionValidatesK ==
  call.op = "SE3" =>
    /\ ~ValidK(call.args[1]) => M.status = "failed"
    /\ (ValidK(call.args[1]) /\ call.args[2] = "AffineGroup") =>
         /\ M.status = "constructed"
         /\ M.k = call.args[1]
         /\ M.dimension = <<6 * call.args[1][1], 1>>
         /\ M.point_shape = <<call.args[1], <<4, 1>>, <<4, 1>>>>

\* C5 as stated: every structure name other than "AffineGroup", the empty one
\* included, ends in a construction error, never in a manifold without a structure.
C5_Original ==
  call.op = "SE3" =>
    /\ call.args[2] # "AffineGroup" => M.status = "failed"
    /\ M.status = "constructed" => (M.connec # 0 /\ M.group # 0)

\* C5 as amended: a non-empty name other than "AffineGroup" ends in a construction
\* error; for an integer k >= 1 the empty name gives a manifold with no structure
\* installed, and "AffineGroup" a manifold with its structure installed.
C5_StructureNames ==
  call.op = "SE3" =>
    /\ call.args[2] \notin {"AffineGroup", ""} =>
         (M.status = "failed" /\ call.out.raised \in {"RuntimeError", "AttributeError"})
    /\ (ValidK(call.args[1]) /\ call.args[2] \notin {"AffineGroup", ""}) =>
         call.out.raised = "AttributeError"
    /\ (ValidK(call.args[1]) /\ call.args[2] = "") =>
         (M.status = "constructed" /\ M.connec = 0 /\ M.group = 0)
    /\ (ValidK(call.args[1]) /\ call.args[2] = "AffineGroup") =>
         (M.status = "constructed" /\ M.connec # 0 /\ M.group = M.connec)
C5_Witness ==
  call.op = "SE3" /\ call.args[2] = "" /\ M.status = "constructed" /\ M.connec = 0

Unsupported == {"proj", "transp", "curvature_tensor", "jacobiField"}

\* C6: a call of proj, transp, curvature_tensor or jacobiField raises
\* NotImplementedError, returns nothing and leaves the manifold and its structure
\* as they were.
C6_UnsupportedRaise ==
  [][call'.op \in Unsupported =>
       /\ call'.out = Raise("NotImplementedError")
       /\ M' = M /\ made' = made]_vars
C6_Witness ==
  /\ call.op \in Unsupported
  /\ call.args[1] # None
  /\ call.out.raised = "NotImplementedError"

\* C7 as stated: the instance installed by the constructor is the connection and
\* the group for ever after.
C7_Original ==
  (Constructed /\ built # 0) => (M.connec = built /\ M.group = built)

\* C7 as amended: the constructor installs one instance as connection and as group;
\* the two stay one and the same instance; every operation but
\* initAffineGroupStructure leaves the manifold as it is, and initAffineGroupStructure
\* replaces both by a newly created instance.
C7_OneStructure ==
  [][/\ (~Constructed /\ Constructed' /\ built' # 0) =>
          (M'.connec = built' /\ M'.group = built')
     /\ Constructed' => M'.connec = M'.group
     /\ (Constructed /\ call'.op # "initAffineGroupStructure") => M' = M
     /\ (Constructed /\ call'.op = "initAffineGroupStructure") =>
          (M'.connec = made' /\ made' > made /\ M'.connec # M.connec)]_vars
C7_Witness ==
  /\ Constructed /\ built # 0
  /\ call.op = "initAffineGroupStructure"
  /\ M.connec # built /\ M.group = M.connec

\* C8: expm(logm(P)) = P for every valid batch P, and logm(expm(X)) = X for every
\* Lie-algebra batch X of rotation angle below pi.
C8_RoundTrip ==
  /\ call.op = "expm_of_logm" => (Returned(call.out) /\ call.out.val = call.args[1])
  /\ call.op = "logm_of_expm" => (Returned(call.out) /\ call.out.val = call.args[1])

\* C9 as stated: every slot of expm(X) has the bottom row (0, 0, 0, 1), whatever
\* the bottom row of X.
C9_Original ==
  (call.op = "expm" /\ Returned(call.out)) =>
    \A s \in DOMAIN call.out.val : call.out.val[s][3] = PointRow

\* C9 as amended: in every slot of a returned expm(X) the entry [3, 3] is 1 and the
\* entries [3, 0..2] are those of X; so the bottom row is (0, 0, 0, 1) whenever
\* those three entries of X are zero.
C9_BottomRow ==
  (call.op = "expm" /\ Returned(call.out)) =>
    \A s \in DOMAIN call.out.val :
      /\ call.out.val[s][3][3] = One
      /\ \A j \in 0..2 : call.out.val[s][3][j] = call.args[1][s][3][j]
      /\ (\A j \in 0..2 : call.args[1][s][3][j] = Zero) => call.out.val[s][3] = PointRow
C9_Witness ==
  /\ call.op = "expm" /\ Returned(call.out)
  /\ call.args[1][0][3] = BadRow
  /\ call.out.val[0][3] # PointRow

\* C10: coords(X) is one column of 6k entries; slot s fills the entries 6s..6s+5 with
\* sqrt(2) X[s,0,1], sqrt(2) X[s,0,2], sqrt(2) X[s,1,2], X[s,0,3], X[s,1,3], X[s,2,3].
C10_CoordsOrder ==
  call.op = "coords" =>
    /\ DOMAIN call.out.val = 0..(6 * Slots(call.args[1]) - 1)
    /\ \A s \in DOMAIN call.args[1] :
         /\ call.out.val[6 * s] = <<TimesSqrt2(call.args[1][s][0][1])>>
         /\ call.out.val[6 * s + 1] = <<TimesSqrt2(call.args[1][s][0][2])>>
         /\ call.out.val[6 * s + 2] = <<TimesSqrt2(call.args[1][s][1][2])>>
         /\ call.out.val[6 * s + 3] = <<Plain(call.args[1][s][0][3])>>
         /\ call.out.val[6 * s + 4] = <<Plain(call.args[1][s][1][3])>>
         /\ call.out.val[6 * s + 5] = <<Plain(call.args[1][s][2][3])>>
C10_Witness ==
  /\ call.op = "coords" /\ Slots(call.args[1]) = 3
  /\ call.args[1][0] # call.args[1][1]
  /\ \E s \in DOMAIN call.args[1] : call.args[1][s][0][1] # Zero /\ call.args[1][s][1][3] # Zero

====
